---- MODULE Spec2Model ----
(***************************************************************************)
(* The command-description core of the S3 client (s3/src/command.rs):      *)
(* the Command enum, its four derivations http_verb, content_length,       *)
(* content_type and sha256, and the conversion of a byte buffer into       *)
(* ContentMd5.  Byte buffers are sequences of integers 0..255, Rust        *)
(* strings that are measured or hashed are sequences of Unicode scalar     *)
(* values (their bytes are their UTF-8 encoding), and the digests are      *)
(* computed: SHA-256 and MD5 by their standards, hex and base64 by their   *)
(* alphabets.                                                              *)
(***************************************************************************)
EXTENDS Integers, Sequences, FiniteSets, TLC

VARIABLES cmd, value, call, result

vars == <<cmd, value, call, result>>

\* Longest byte buffer and longest string a Command of the model carries.
MaxLen == 2

(***************************************************************************)
(* 32-bit words as <<high half, low half>>, each half in 0..65535.         *)
(***************************************************************************)
And4 ==
  << <<0, 0, 0, 0, 0, 0, 0, 0, 0, 0, 0, 0, 0, 0, 0, 0>>,
     <<0, 1, 0, 1, 0, 1, 0, 1, 0, 1, 0, 1, 0, 1, 0, 1>>,
     <<0, 0, 2, 2, 0, 0, 2, 2, 0, 0, 2, 2, 0, 0, 2, 2>>,
     <<0, 1, 2, 3, 0, 1, 2, 3, 0, 1, 2, 3, 0, 1, 2, 3>>,
     <<0, 0, 0, 0, 4, 4, 4, 4, 0, 0, 0, 0, 4, 4, 4, 4>>,
     <<0, 1, 0, 1, 4, 5, 4, 5, 0, 1, 0, 1, 4, 5, 4, 5>>,
     <<0, 0, 2, 2, 4, 4, 6, 6, 0, 0, 2, 2, 4, 4, 6, 6>>,
     <<0, 1, 2, 3, 4, 5, 6, 7, 0, 1, 2, 3, 4, 5, 6, 7>>,
     <<0, 0, 0, 0, 0, 0, 0, 0, 8, 8, 8, 8, 8, 8, 8, 8>>,
     <<0, 1, 0, 1, 0, 1, 0, 1, 8, 9, 8, 9, 8, 9, 8, 9>>,
     <<0, 0, 2, 2, 0, 0, 2, 2, 8, 8, 10, 10, 8, 8, 10, 10>>,
     <<0, 1, 2, 3, 0, 1, 2, 3, 8, 9, 10, 11, 8, 9, 10, 11>>,
     <<0, 0, 0, 0, 4, 4, 4, 4, 8, 8, 8, 8, 12, 12, 12, 12>>,
     <<0, 1, 0, 1, 4, 5, 4, 5, 8, 9, 8, 9, 12, 13, 12, 13>>,
     <<0, 0, 2, 2, 4, 4, 6, 6, 8, 8, 10, 10, 12, 12, 14, 14>>,
     <<0, 1, 2, 3, 4, 5, 6, 7, 8, 9, 10, 11, 12, 13, 14, 15>> >>

BitAnd(a, b) ==
  And4[(a \div 4096) + 1][(b \div 4096) + 1] * 4096
    + And4[((a \div 256) % 16) + 1][((b \div 256) % 16) + 1] * 256
    + And4[((a \div 16) % 16) + 1][((b \div 16) % 16) + 1] * 16
    + And4[(a % 16) + 1][(b % 16) + 1]

WAnd(a, b) == <<BitAnd(a[1], b[1]), BitAnd(a[2], b[2])>>

WXor(a, b) ==
  <<a[1] + b[1] - 2 * BitAnd(a[1], b[1]), a[2] + b[2] - 2 * BitAnd(a[2], b[2])>>

WOr(a, b) ==
  <<a[1] + b[1] - BitAnd(a[1], b[1]), a[2] + b[2] - BitAnd(a[2], b[2])>>

WNot(a) == <<65535 - a[1], 65535 - a[2]>>

WAdd(a, b) ==
  LET lo == a[2] + b[2]
      hi == a[1] + b[1] + (lo \div 65536)
  IN <<hi % 65536, lo % 65536>>

RECURSIVE RotR(_, _)
RotR(a, n) ==
  IF n = 0 THEN a
  ELSE IF n >= 16 THEN RotR(<<a[2], a[1]>>, n - 16)
  ELSE <<(a[1] \div 2^n) + (a[2] % 2^n) * 2^(16 - n),
         (a[2] \div 2^n) + (a[1] % 2^n) * 2^(16 - n)>>

RotL(a, n) == RotR(a, (32 - n) % 32)

Shr(a, n) ==
  IF n >= 16 THEN <<0, a[1] \div 2^(n - 16)>>
  ELSE <<a[1] \div 2^n, (a[2] \div 2^n) + (a[1] % 2^n) * 2^(16 - n)>>

Zeros(n) == [i \in 1..n |-> 0]

\* The concatenation of a sequence of sequences (by halves: the recursion stays shallow).
RECURSIVE Flatten(_)
Flatten(ss) ==
  IF ss = <<>> THEN <<>>
  ELSE IF Len(ss) = 1 THEN ss[1]
  ELSE LET h == Len(ss) \div 2
       IN Flatten(SubSeq(ss, 1, h)) \o Flatten(SubSeq(ss, h + 1, Len(ss)))

(***************************************************************************)
(* sha2::Sha256 (FIPS 180-4): Sha256::default(), update(bytes), finalize().*)
(***************************************************************************)
Sha256K ==
  << <<17034, 12184>>, <<28983, 17553>>, <<46528, 64463>>, <<59829, 56229>>,
    <<14678, 49755>>, <<23025, 4593>>, <<37439, 33444>>, <<43804, 24277>>,
    <<55303, 43672>>, <<4739, 23297>>, <<9265, 34238>>, <<21772, 32195>>,
    <<29374, 23924>>, <<32990, 45566>>, <<39900, 1703>>, <<49563, 61812>>,
    <<58523, 27073>>, <<61374, 18310>>, <<4033, 40390>>, <<9228, 41420>>,
    <<11753, 11375>>, <<19060, 33962>>, <<23728, 43484>>, <<30457, 35034>>,
    <<38974, 20818>>, <<43057, 50797>>, <<45059, 10184>>, <<48985, 32711>>,
    <<50912, 3059>>, <<54695, 37191>>, <<1738, 25425>>, <<5161, 10599>>,
    <<10167, 2693>>, <<11803, 8504>>, <<19756, 28156>>, <<21304, 3347>>,
    <<25866, 29524>>, <<30314, 2747>>, <<33218, 51502>>, <<37490, 11397>>,
    <<41663, 59553>>, <<43034, 26187>>, <<49739, 35696>>, <<51052, 20899>>,
    <<53650, 59417>>, <<54937, 1572>>, <<62478, 13701>>, <<4202, 41072>>,
    <<6564, 49430>>, <<7735, 27656>>, <<10056, 30540>>, <<13488, 48309>>,
    <<14620, 3251>>, <<20184, 43594>>, <<23452, 51791>>, <<26670, 28659>>,
    <<29839, 33518>>, <<30885, 25455>>, <<33992, 30740>>, <<36039, 520>>,
    <<37054, 65530>>, <<42064, 27883>>, <<48889, 41975>>, <<50801, 30962>>>>

Sha256H0 ==
  << <<27145, 58983>>, <<47975, 44677>>, <<15470, 62322>>, <<42319, 62778>>,
    <<20750, 21119>>, <<39685, 26764>>, <<8067, 55723>>, <<23520, 52505>>>>

BeWord(b, i) == <<b[i] * 256 + b[i + 1], b[i + 2] * 256 + b[i + 3]>>

BeBytes(w) == <<w[1] \div 256, w[1] % 256, w[2] \div 256, w[2] % 256>>

Sha256Pad(msg) ==
  LET n == Len(msg)
      k == (119 - (n % 64)) % 64
      bits == n * 8
  IN msg \o <<128>> \o Zeros(k) \o <<0, 0, 0, 0>>
         \o <<bits \div 2^24, (bits \div 65536) % 256, (bits \div 256) % 256, bits % 256>>

SmallSigma0(w) == WXor(WXor(RotR(w, 7), RotR(w, 18)), Shr(w, 3))

SmallSigma1(w) == WXor(WXor(RotR(w, 17), RotR(w, 19)), Shr(w, 10))

BigSigma0(w) == WXor(WXor(RotR(w, 2), RotR(w, 13)), RotR(w, 22))

BigSigma1(w) == WXor(WXor(RotR(w, 6), RotR(w, 11)), RotR(w, 25))

Ch(e, f, g) == WXor(WAnd(e, f), WAnd(WNot(e), g))

Maj(a, b, c) == WXor(WXor(WAnd(a, b), WAnd(a, c)), WAnd(b, c))

RECURSIVE Schedule(_)
Schedule(w) ==
  IF Len(w) = 64 THEN w
  ELSE LET t == Len(w) + 1
       IN Schedule(Append(w, WAdd(WAdd(SmallSigma1(w[t - 2]), w[t - 7]),
                                  WAdd(SmallSigma0(w[t - 15]), w[t - 16]))))

\* The working variables s = <<a, b, c, d, e, f, g, h>> after rounds t..64.
\* (s is never empty; comparing it makes TLC evaluate each round in turn.)
RECURSIVE Rounds(_, _, _)
Rounds(s, w, t) ==
  IF t > 64 \/ s = <<>> THEN s
  ELSE LET t1 == WAdd(WAdd(WAdd(s[8], BigSigma1(s[5])),
                           WAdd(Ch(s[5], s[6], s[7]), Sha256K[t])), w[t])
           t2 == WAdd(BigSigma0(s[1]), Maj(s[1], s[2], s[3]))
       IN Rounds(<<WAdd(t1, t2), s[1], s[2], s[3], WAdd(s[4], t1), s[5], s[6], s[7]>>,
                 w, t + 1)

Compress(h, block) ==
  LET w == Schedule([i \in 1..16 |-> BeWord(block, 4 * i - 3)])
      s == Rounds(h, w, 1)
  IN [i \in 1..8 |-> WAdd(h[i], s[i])]

RECURSIVE Sha256Blocks(_, _)
Sha256Blocks(h, m) ==
  IF m = <<>> \/ h = <<>> THEN h
  ELSE Sha256Blocks(Compress(h, SubSeq(m, 1, 64)), SubSeq(m, 65, Len(m)))

\* The 32 digest bytes of msg.
Sha256(msg) ==
  LET h == Sha256Blocks(Sha256H0, Sha256Pad(msg))
  IN Flatten([i \in 1..8 |-> BeBytes(h[i])])

(***************************************************************************)
(* MD5 (RFC 1321), the digest the Content-MD5 header carries.              *)
(***************************************************************************)
Md5T ==
  << <<55146, 42104>>, <<59591, 46934>>, <<9248, 28891>>, <<49597, 52974>>,
    <<62844, 4015>>, <<18311, 50730>>, <<43056, 17939>>, <<64838, 38145>>,
    <<27008, 39128>>, <<35652, 63407>>, <<65535, 23473>>, <<35164, 55230>>,
    <<27536, 4386>>, <<64920, 29075>>, <<42617, 17294>>, <<18868, 2081>>,
    <<63006, 9570>>, <<49216, 45888>>, <<9822, 23121>>, <<59830, 51114>>,
    <<54831, 4189>>, <<580, 5203>>, <<55457, 59009>>, <<59347, 64456>>,
    <<8673, 52710>>, <<49975, 2006>>, <<62677, 3463>>, <<17754, 5357>>,
    <<43491, 59653>>, <<64751, 41976>>, <<26479, 729>>, <<36138, 19594>>,
    <<65530, 14658>>, <<34673, 63105>>, <<28061, 24866>>, <<64997, 14348>>,
    <<42174, 59972>>, <<19422, 53161>>, <<63163, 19296>>, <<48831, 48240>>,
    <<10395, 32454>>, <<60065, 10234>>, <<54511, 12421>>, <<1160, 7429>>,
    <<55764, 53305>>, <<59099, 39397>>, <<8098, 31992>>, <<50348, 22117>>,
    <<62505, 8772>>, <<17194, 65431>>, <<43924, 9127>>, <<64659, 41017>>,
    <<25947, 22979>>, <<36620, 52370>>, <<65519, 62589>>, <<34180, 24017>>,
    <<28584, 32335>>, <<65068, 59104>>, <<41729, 17172>>, <<19976, 4513>>,
    <<63315, 32386>>, <<48442, 62005>>, <<10967, 53947>>, <<60294, 54161>>>>

Md5Shift ==
  <<7, 12, 17, 22, 7, 12, 17, 22, 7, 12, 17, 22, 7, 12, 17, 22,
    5, 9, 14, 20, 5, 9, 14, 20, 5, 9, 14, 20, 5, 9, 14, 20,
    4, 11, 16, 23, 4, 11, 16, 23, 4, 11, 16, 23, 4, 11, 16, 23,
    6, 10, 15, 21, 6, 10, 15, 21, 6, 10, 15, 21, 6, 10, 15, 21>>

Md5Init == << <<26437, 8961>>, <<61389, 43913>>, <<39098, 56574>>, <<4146, 21622>> >>

LeWord(b, i) == <<b[i + 3] * 256 + b[i + 2], b[i + 1] * 256 + b[i]>>

LeBytes(w) == <<w[2] % 256, w[2] \div 256, w[1] % 256, w[1] \div 256>>

Md5Pad(msg) ==
  LET n == Len(msg)
      k == (119 - (n % 64)) % 64
      bits == n * 8
  IN msg \o <<128>> \o Zeros(k)
         \o <<bits % 256, (bits \div 256) % 256, (bits \div 65536) % 256, bits \div 2^24>>
         \o <<0, 0, 0, 0>>

\* The state s = <<a, b, c, d>> after steps i..63 over the block's words m.
RECURSIVE Md5Steps(_, _, _)
Md5Steps(s, m, i) ==
  IF i > 63 \/ s = <<>> THEN s
  ELSE LET f == IF i < 16 THEN WOr(WAnd(s[2], s[3]), WAnd(WNot(s[2]), s[4]))
                ELSE IF i < 32 THEN WOr(WAnd(s[4], s[2]), WAnd(WNot(s[4]), s[3]))
                ELSE IF i < 48 THEN WXor(WXor(s[2], s[3]), s[4])
                ELSE WXor(s[3], WOr(s[2], WNot(s[4])))
           g == IF i < 16 THEN i
                ELSE IF i < 32 THEN (5 * i + 1) % 16
                ELSE IF i < 48 THEN (3 * i + 5) % 16
                ELSE (7 * i) % 16
           x == WAdd(WAdd(s[1], f), WAdd(Md5T[i + 1], m[g + 1]))
       IN Md5Steps(<<s[4], WAdd(s[2], RotL(x, Md5Shift[i + 1])), s[2], s[3]>>, m, i + 1)

RECURSIVE Md5Blocks(_, _)
Md5Blocks(h, m) ==
  IF m = <<>> \/ h = <<>> THEN h
  ELSE LET w == [i \in 1..16 |-> LeWord(m, 4 * i - 3)]
           s == Md5Steps(h, w, 0)
       IN Md5Blocks([i \in 1..4 |-> WAdd(h[i], s[i])], SubSeq(m, 65, Len(m)))

\* The 16 digest bytes of msg.
Md5(msg) ==
  LET h == Md5Blocks(Md5Init, Md5Pad(msg))
  IN Flatten([i \in 1..4 |-> LeBytes(h[i])])

(***************************************************************************)
(* hex::encode: two lowercase hexadecimal digits per byte.                 *)
(***************************************************************************)
HexDigits ==
  <<"0", "1", "2", "3", "4", "5", "6", "7", "8", "9", "a", "b", "c", "d", "e", "f">>

RECURSIVE HexEncode(_)
HexEncode(bytes) ==
  IF bytes = <<>> THEN ""
  ELSE HexDigits[(Head(bytes) \div 16) + 1] \o HexDigits[(Head(bytes) % 16) + 1]
         \o HexEncode(Tail(bytes))

(***************************************************************************)
(* base64::engine::general_purpose: the standard alphabet, three bytes to  *)
(* four characters, the tail padded with "=" when the engine pads.         *)
(***************************************************************************)
Base64Alphabet ==
  <<"A", "B", "C", "D", "E", "F", "G", "H", "I", "J", "K", "L", "M", "N", "O", "P", "Q", "R",
    "S", "T", "U", "V", "W", "X", "Y", "Z", "a", "b", "c", "d", "e", "f", "g", "h", "i", "j",
    "k", "l", "m", "n", "o", "p", "q", "r", "s", "t", "u", "v", "w", "x", "y", "z", "0", "1",
    "2", "3", "4", "5", "6", "7", "8", "9", "+", "/">>

RECURSIVE Base64EncodeWith(_, _)
Base64EncodeWith(bytes, pad) ==
  IF bytes = <<>> THEN ""
  ELSE IF Len(bytes) = 1 THEN
    Base64Alphabet[(bytes[1] \div 4) + 1]
      \o Base64Alphabet[((bytes[1] % 4) * 16) + 1]
      \o (IF pad THEN "==" ELSE "")
  ELSE IF Len(bytes) = 2 THEN
    Base64Alphabet[(bytes[1] \div 4) + 1]
      \o Base64Alphabet[((bytes[1] % 4) * 16) + (bytes[2] \div 16) + 1]
      \o Base64Alphabet[((bytes[2] % 16) * 4) + 1]
      \o (IF pad THEN "=" ELSE "")
  ELSE
    Base64Alphabet[(bytes[1] \div 4) + 1]
      \o Base64Alphabet[((bytes[1] % 4) * 16) + (bytes[2] \div 16) + 1]
      \o Base64Alphabet[((bytes[2] % 16) * 4) + (bytes[3] \div 64) + 1]
      \o Base64Alphabet[(bytes[3] % 64) + 1]
      \o Base64EncodeWith(SubSeq(bytes, 4, Len(bytes)), pad)

\* base64::engine::general_purpose::STANDARD.encode
Base64Standard(bytes) == Base64EncodeWith(bytes, TRUE)

(***************************************************************************)
(* str::as_bytes, str::len, Vec::from(String): a Rust string is its UTF-8  *)
(* bytes, one to four per scalar value.                                    *)
(***************************************************************************)
Utf8Char(c) ==
  IF c < 128 THEN <<c>>
  ELSE IF c < 2048 THEN <<192 + (c \div 64), 128 + (c % 64)>>
  ELSE IF c < 65536 THEN <<224 + (c \div 4096), 128 + ((c \div 64) % 64), 128 + (c % 64)>>
  ELSE <<240 + (c \div 262144), 128 + ((c \div 4096) % 64),
         128 + ((c \div 64) % 64), 128 + (c % 64)>>

Utf8(s) == Flatten([i \in 1..Len(s) |-> Utf8Char(s[i])])

as_bytes(s) == Utf8(s)

RECURSIVE SeqsUpTo(_, _)
SeqsUpTo(S, n) ==
  IF n = 0 THEN {<<>>}
  ELSE LET r == SeqsUpTo(S, n - 1) IN r \cup {Append(q, e) : q \in r, e \in S}

(***************************************************************************)
(* Rust's Option and Result.                                               *)
(***************************************************************************)
OptNone == <<>>

OptSome(x) == <<x>>

Option(S) == {OptNone} \cup {OptSome(x) : x \in S}

Ok(v) == [ok |-> TRUE, val |-> v]

Err(e) == [ok |-> FALSE, err |-> e]

(***************************************************************************)
(* The values a Command carries.                                           *)
(***************************************************************************)
\* Body bytes: an ASCII letter and a byte that is not valid UTF-8.
ByteVals == {97, 255}

Buffers == SeqsUpTo(ByteVals, MaxLen)

\* Scalar values of measured strings: "a" (one byte) and U+00E9 (two bytes).
CharVals == {97, 233}

Strs == SeqsUpTo(CharVals, MaxLen)

ContentTypes == {"image/png", "text/plain; charset=utf-8"}

UploadIds == {"upload-1", "upload-2"}

ContentMd5Some(digest) == [kind |-> "Some", digest |-> digest]

ContentMd5None == [kind |-> "None"]

ContentMd5Auto == [kind |-> "Auto"]

ContentMd5s == {ContentMd5Some("1B2M2Y8AsgTpgAmY7PhCfg=="), ContentMd5None, ContentMd5Auto}

Multipart(part_number, upload_id) == [part_number |-> part_number, upload_id |-> upload_id]

(***************************************************************************)
(* crate::bucket_ops::BucketConfiguration and its optional                 *)
(* location-constraint payload: none for the service's default region.     *)
(***************************************************************************)
\* "us-east-1"
UsEast1 == <<117, 115, 45, 101, 97, 115, 116, 45, 49>>

\* "eu-west-1"
EuWest1 == <<101, 117, 45, 119, 101, 115, 116, 45, 49>>

\* a custom region named U+00E9
CustomRegion == <<233>>

BucketConfigurations == {[region |-> r] : r \in {UsEast1, EuWest1, CustomRegion}}

\* "<CreateBucketConfiguration><LocationConstraint>"
LocationConstraintOpen ==
  <<60, 67, 114, 101, 97, 116, 101, 66, 117, 99, 107, 101, 116, 67, 111, 110, 102, 105, 103,
    117, 114, 97, 116, 105, 111, 110, 62, 60, 76, 111, 99, 97, 116, 105, 111, 110, 67, 111, 110,
    115, 116, 114, 97, 105, 110, 116, 62>>

\* "</LocationConstraint></CreateBucketConfiguration>"
LocationConstraintClose ==
  <<60, 47, 76, 111, 99, 97, 116, 105, 111, 110, 67, 111, 110, 115, 116, 114, 97, 105, 110,
    116, 62, 60, 47, 67, 114, 101, 97, 116, 101, 66, 117, 99, 107, 101, 116, 67, 111, 110, 102,
    105, 103, 117, 114, 97, 116, 105, 111, 110, 62>>

location_constraint_payload(config) ==
  IF config.region = UsEast1 THEN OptNone
  ELSE OptSome(LocationConstraintOpen \o config.region \o LocationConstraintClose)

(***************************************************************************)
(* crate::serde_types::CompleteMultipartUploadData: the completion         *)
(* manifest, its string form (to_string) and that form's length (len).     *)
(***************************************************************************)
Part(part_number, etag) == [part_number |-> part_number, etag |-> etag]

CompleteMultipartUploadDatas ==
  {[parts |-> ps] : ps \in {<<>>, <<Part(1, <<97>>)>>, <<Part(1, <<97>>), Part(12, <<233>>)>>}}

\* "<CompleteMultipartUpload>"
ManifestOpen ==
  <<60, 67, 111, 109, 112, 108, 101, 116, 101, 77, 117, 108, 116, 105, 112, 97, 114, 116, 85,
    112, 108, 111, 97, 100, 62>>

\* "</CompleteMultipartUpload>"
ManifestClose ==
  <<60, 47, 67, 111, 109, 112, 108, 101, 116, 101, 77, 117, 108, 116, 105, 112, 97, 114, 116,
    85, 112, 108, 111, 97, 100, 62>>

\* "<Part><PartNumber>"
PartOpen ==
  <<60, 80, 97, 114, 116, 62, 60, 80, 97, 114, 116, 78, 117, 109, 98, 101, 114, 62>>

\* "</PartNumber><ETag>"
PartMid ==
  <<60, 47, 80, 97, 114, 116, 78, 117, 109, 98, 101, 114, 62, 60, 69, 84, 97, 103, 62>>

\* "</ETag></Part>"
PartClose ==
  <<60, 47, 69, 84, 97, 103, 62, 60, 47, 80, 97, 114, 116, 62>>

RECURSIVE Decimal(_)
Decimal(n) == IF n < 10 THEN <<48 + n>> ELSE Append(Decimal(n \div 10), 48 + (n % 10))

PartToString(p) == PartOpen \o Decimal(p.part_number) \o PartMid \o p.etag \o PartClose

DataToString(data) ==
  ManifestOpen
    \o Flatten([i \in 1..Len(data.parts) |-> PartToString(data.parts[i])])
    \o ManifestClose

DataLen(data) == Len(as_bytes(DataToString(data)))

(***************************************************************************)
(* crate::serde_types::BucketLifecycleConfiguration under                  *)
(* quick_xml::se::to_string, which returns the XML text or an error, and   *)
(* crate::serde_types::CorsConfiguration.                                  *)
(***************************************************************************)
BucketLifecycleConfigurations ==
  {[id |-> i, serializable |-> b] : i \in {<<97>>, <<233, 97>>}, b \in BOOLEAN}

\* "<LifecycleConfiguration><Rule><ID>"
LifecycleOpen ==
  <<60, 76, 105, 102, 101, 99, 121, 99, 108, 101, 67, 111, 110, 102, 105, 103, 117, 114, 97,
    116, 105, 111, 110, 62, 60, 82, 117, 108, 101, 62, 60, 73, 68, 62>>

\* "</ID></Rule></LifecycleConfiguration>"
LifecycleClose ==
  <<60, 47, 73, 68, 62, 60, 47, 82, 117, 108, 101, 62, 60, 47, 76, 105, 102, 101, 99, 121, 99,
    108, 101, 67, 111, 110, 102, 105, 103, 117, 114, 97, 116, 105, 111, 110, 62>>

quick_xml_to_string(configuration) ==
  IF configuration.serializable
  THEN Ok(LifecycleOpen \o configuration.id \o LifecycleClose)
  ELSE Err("quick_xml::DeError")

CorsConfigurations == {[allowed_origin |-> o] : o \in {"*", "https://example.com"}}

(***************************************************************************)
(* pub enum Command: one record per variant, tagged with the variant.      *)
(***************************************************************************)
UnitVariants ==
  {"HeadObject", "DeleteObject", "DeleteObjectTagging", "GetObject", "GetObjectTorrent",
   "GetObjectTagging", "GetBucketLocation", "DeleteBucket", "ListBuckets",
   "GetBucketLifecycle", "DeleteBucketLifecycle"}

Variants ==
  UnitVariants \cup
  {"CopyObject", "GetObjectRange", "PutObject", "PutObjectTagging", "ListMultipartUploads",
   "ListObjects", "ListObjectsV2", "PresignGet", "PresignPut", "PresignDelete",
   "InitiateMultipartUpload", "UploadPart", "AbortMultipartUpload",
   "CompleteMultipartUpload", "CreateBucket", "PutBucketCors", "PutBucketLifecycle"}

Command ==
  {[tag |-> t] : t \in UnitVariants}
  \cup {[tag |-> "CopyObject", from |-> f] : f \in {"bucket/key", "other/key"}}
  \cup {[tag |-> "GetObjectRange", start |-> s, end |-> e] : s \in {0, 5}, e \in Option({9})}
  \cup {[tag |-> "PutObject", content |-> c, content_md5 |-> m, content_type |-> t,
         multipart |-> p, cache_control |-> cc, content_disposition |-> cd] :
          c \in Buffers, m \in ContentMd5s, t \in ContentTypes,
          p \in Option({Multipart(1, "upload-1")}),
          cc \in Option({"no-cache"}), cd \in Option({"inline"})}
  \cup {[tag |-> "PutObjectTagging", tags |-> t] : t \in Strs}
  \cup {[tag |-> "ListMultipartUploads", prefix |-> p, delimiter |-> d, key_marker |-> k,
         max_uploads |-> m] :
          p \in Option({"logs/"}), d \in Option({"/"}), k \in Option({"k"}),
          m \in Option({1000})}
  \cup {[tag |-> "ListObjects", prefix |-> p, delimiter |-> d, marker |-> k, max_keys |-> m] :
          p \in {"", "logs/"}, d \in Option({"/"}), k \in Option({"k"}), m \in Option({1000})}
  \cup {[tag |-> "ListObjectsV2", prefix |-> p, delimiter |-> d, continuation_token |-> k,
         start_after |-> a, max_keys |-> m] :
          p \in {"", "logs/"}, d \in Option({"/"}), k \in Option({"token"}),
          a \in Option({"k"}), m \in Option({1000})}
  \cup {[tag |-> "PresignGet", expiry_secs |-> x, custom_queries |-> q] :
          x \in {60, 3600}, q \in Option({[versionId |-> "1"]})}
  \cup {[tag |-> "PresignPut", expiry_secs |-> x, custom_headers |-> h, custom_queries |-> q] :
          x \in {60, 3600}, h \in Option({[host |-> "h"]}), q \in Option({[versionId |-> "1"]})}
  \cup {[tag |-> "PresignDelete", expiry_secs |-> x] : x \in {60, 3600}}
  \cup {[tag |-> "InitiateMultipartUpload", content_type |-> t] : t \in ContentTypes}
  \cup {[tag |-> "UploadPart", part_number |-> n, content |-> c, content_md5 |-> m,
         upload_id |-> u] :
          n \in {1, 2}, c \in Buffers, m \in ContentMd5s, u \in UploadIds}
  \cup {[tag |-> "AbortMultipartUpload", upload_id |-> u] : u \in UploadIds}
  \cup {[tag |-> "CompleteMultipartUpload", upload_id |-> u, data |-> d, cache_control |-> cc,
         content_disposition |-> cd] :
          u \in UploadIds, d \in CompleteMultipartUploadDatas,
          cc \in Option({"no-cache"}), cd \in Option({"inline"})}
  \cup {[tag |-> "CreateBucket", config |-> c] : c \in BucketConfigurations}
  \cup {[tag |-> "PutBucketCors", configuration |-> c] : c \in CorsConfigurations}
  \cup {[tag |-> "PutBucketLifecycle", configuration |-> c] : c \in BucketLifecycleConfigurations}

(***************************************************************************)
(* pub enum HttpMethod and its Display.                                    *)
(***************************************************************************)
HttpMethod == {"Delete", "Get", "Put", "Post", "Head"}

HttpMethodFmt(m) ==
  CASE m = "Delete" -> "DELETE"
    [] m = "Get" -> "GET"
    [] m = "Post" -> "POST"
    [] m = "Put" -> "PUT"
    [] m = "Head" -> "HEAD"

(***************************************************************************)
(* impl From<&[u8]> for ContentMd5                                         *)
(***************************************************************************)
\* ContentMd5From with an engine that does not pad (STANDARD_NO_PAD).
ContentMd5From_NoPad(bytes) == ContentMd5Some(Base64EncodeWith(bytes, FALSE))

ContentMd5From(bytes) == ContentMd5Some(Base64Standard(bytes))

(***************************************************************************)
(* crate::EMPTY_PAYLOAD_SHA, and the digests of the buffers the Commands   *)
(* of the model can hash, computed once.                                   *)
(***************************************************************************)
EMPTY_PAYLOAD_SHA == "e3b0c44298fc1c149afbf4c8996fb92427ae41e4649b934ca495991b7852b855"

HashInputs ==
  {<<>>} \cup Buffers
    \cup {as_bytes(t) : t \in Strs}
    \cup {as_bytes(DataToString(d)) : d \in CompleteMultipartUploadDatas}
    \cup {as_bytes(location_constraint_payload(c)[1]) :
            c \in {b \in BucketConfigurations : location_constraint_payload(b) # OptNone}}

Digests == [bytes \in HashInputs |-> HexEncode(Sha256(bytes))]

\* let mut sha = Sha256::default(); sha.update(bytes); hex::encode(sha.finalize().as_slice())
hex_sha256(bytes) ==
  IF bytes \in HashInputs THEN Digests[bytes] ELSE HexEncode(Sha256(bytes))

(***************************************************************************)
(* impl Command                                                            *)
(***************************************************************************)
\* http_verb with PresignDelete listed in the Get arm, beside PresignGet.
http_verb_PresignDeleteAsGet(c) ==
  CASE c.tag \in {"GetObject", "GetObjectTorrent", "GetObjectRange", "ListBuckets",
                  "ListObjects", "ListObjectsV2", "GetBucketLocation", "GetObjectTagging",
                  "GetBucketLifecycle", "ListMultipartUploads", "PresignGet",
                  "PresignDelete"} -> "Get"
    [] c.tag \in {"PutObject", "CopyObject", "PutObjectTagging", "PresignPut", "UploadPart",
                  "PutBucketCors", "CreateBucket", "PutBucketLifecycle"} -> "Put"
    [] c.tag \in {"DeleteObject", "DeleteObjectTagging", "AbortMultipartUpload",
                  "DeleteBucket", "DeleteBucketLifecycle"} -> "Delete"
    [] c.tag \in {"InitiateMultipartUpload", "CompleteMultipartUpload"} -> "Post"
    [] c.tag = "HeadObject" -> "Head"

http_verb(c) ==
  CASE c.tag \in {"GetObject", "GetObjectTorrent", "GetObjectRange", "ListBuckets",
                  "ListObjects", "ListObjectsV2", "GetBucketLocation", "GetObjectTagging",
                  "GetBucketLifecycle", "ListMultipartUploads", "PresignGet"} -> "Get"
    [] c.tag \in {"PutObject", "CopyObject", "PutObjectTagging", "PresignPut", "UploadPart",
                  "PutBucketCors", "CreateBucket", "PutBucketLifecycle"} -> "Put"
    [] c.tag \in {"DeleteObject", "DeleteObjectTagging", "AbortMultipartUpload",
                  "PresignDelete", "DeleteBucket", "DeleteBucketLifecycle"} -> "Delete"
    [] c.tag \in {"InitiateMultipartUpload", "CompleteMultipartUpload"} -> "Post"
    [] c.tag = "HeadObject" -> "Head"

\* CreateBucketLength counting the payload's characters (payload.chars().count()).
CreateBucketLength_CharCount(config) ==
  LET payload == location_constraint_payload(config)
  IN IF payload # OptNone THEN Ok(Len(payload[1])) ELSE Ok(0)

\* The CreateBucket arm of content_length.
CreateBucketLength(config) ==
  LET payload == location_constraint_payload(config)
  IN IF payload # OptNone THEN Ok(Len(as_bytes(payload[1]))) ELSE Ok(0)

\* PutBucketLifecycleLength with the error dropped (unwrap_or_default()).
PutBucketLifecycleLength_ErrorAsEmpty(configuration) ==
  LET xml == quick_xml_to_string(configuration)
  IN IF xml.ok THEN Ok(Len(as_bytes(xml.val))) ELSE Ok(0)

\* The PutBucketLifecycle arm of content_length: the ? returns the serializer's
\* error to the caller as an S3Error.
PutBucketLifecycleLength(configuration) ==
  LET xml == quick_xml_to_string(configuration)
  IN IF xml.ok THEN Ok(Len(as_bytes(xml.val))) ELSE Err([S3Error |-> xml.err])

\* content_length counting the tag set's characters (tags.chars().count()).
content_length_TagChars(c) ==
  CASE c.tag = "CopyObject" -> Ok(0)
    [] c.tag = "PutObject" -> Ok(Len(c.content))
    [] c.tag = "PutObjectTagging" -> Ok(Len(c.tags))
    [] c.tag = "UploadPart" -> Ok(Len(c.content))
    [] c.tag = "CompleteMultipartUpload" -> Ok(DataLen(c.data))
    [] c.tag = "CreateBucket" -> CreateBucketLength(c.config)
    [] c.tag = "PutBucketLifecycle" -> PutBucketLifecycleLength(c.configuration)
    [] OTHER -> Ok(0)

content_length(c) ==
  CASE c.tag = "CopyObject" -> Ok(0)
    [] c.tag = "PutObject" -> Ok(Len(c.content))
    [] c.tag = "PutObjectTagging" -> Ok(Len(as_bytes(c.tags)))
    [] c.tag = "UploadPart" -> Ok(Len(c.content))
    [] c.tag = "CompleteMultipartUpload" -> Ok(DataLen(c.data))
    [] c.tag = "CreateBucket" -> CreateBucketLength(c.config)
    [] c.tag = "PutBucketLifecycle" -> PutBucketLifecycleLength(c.configuration)
    [] OTHER -> Ok(0)

\* content_type without the InitiateMultipartUpload arm.
content_type_NoInitiateArm(c) ==
  CASE c.tag = "PutObject" -> c.content_type
    [] c.tag \in {"CompleteMultipartUpload", "PutBucketLifecycle"} -> "application/xml"
    [] OTHER -> "text/plain"

content_type(c) ==
  CASE c.tag = "InitiateMultipartUpload" -> c.content_type
    [] c.tag = "PutObject" -> c.content_type
    [] c.tag \in {"CompleteMultipartUpload", "PutBucketLifecycle"} -> "application/xml"
    [] OTHER -> "text/plain"

\* The CreateBucket arm of sha256.
CreateBucketSha256(config) ==
  LET payload == location_constraint_payload(config)
  IN IF payload # OptNone THEN Ok(hex_sha256(as_bytes(payload[1])))
     ELSE Ok(EMPTY_PAYLOAD_SHA)

\* sha256 with an UploadPart arm that hashes the part's bytes.
sha256_HashesUploadPart(c) ==
  CASE c.tag = "PutObject" -> Ok(hex_sha256(c.content))
    [] c.tag = "PutObjectTagging" -> Ok(hex_sha256(as_bytes(c.tags)))
    [] c.tag = "UploadPart" -> Ok(hex_sha256(c.content))
    [] c.tag = "CompleteMultipartUpload" -> Ok(hex_sha256(as_bytes(DataToString(c.data))))
    [] c.tag = "CreateBucket" -> CreateBucketSha256(c.config)
    [] OTHER -> Ok(EMPTY_PAYLOAD_SHA)

\* sha256 treating a PutObject that carries a multipart descriptor as a bodiless part.
sha256_SkipsMultipartBody(c) ==
  CASE c.tag = "PutObject" ->
         IF c.multipart # OptNone THEN Ok(EMPTY_PAYLOAD_SHA) ELSE Ok(hex_sha256(c.content))
    [] c.tag = "PutObjectTagging" -> Ok(hex_sha256(as_bytes(c.tags)))
    [] c.tag = "CompleteMultipartUpload" -> Ok(hex_sha256(as_bytes(DataToString(c.data))))
    [] c.tag = "CreateBucket" -> CreateBucketSha256(c.config)
    [] OTHER -> Ok(EMPTY_PAYLOAD_SHA)

sha256(c) ==
  CASE c.tag = "PutObject" -> Ok(hex_sha256(c.content))
    [] c.tag = "PutObjectTagging" -> Ok(hex_sha256(as_bytes(c.tags)))
    [] c.tag = "CompleteMultipartUpload" -> Ok(hex_sha256(as_bytes(DataToString(c.data))))
    [] c.tag = "CreateBucket" -> CreateBucketSha256(c.config)
    [] OTHER -> Ok(EMPTY_PAYLOAD_SHA)

(***************************************************************************)
(* The state machine.  A caller constructs one Command (cmd) and the       *)
(* request builder calls the derivations on it, in any order and any       *)
(* number of times; call names the last function called and result what    *)
(* it returned.  Under SpecContentMd5 the caller holds a byte buffer       *)
(* (value) and converts it into ContentMd5.                                *)
(***************************************************************************)
Init ==
  /\ cmd \in Command
  /\ value = <<>>
  /\ call = "new"
  /\ result = <<>>

HttpVerb ==
  /\ call' = "http_verb"
  /\ result' = http_verb(cmd)
  /\ UNCHANGED <<cmd, value>>

ContentLength ==
  /\ call' = "content_length"
  /\ result' = content_length(cmd)
  /\ UNCHANGED <<cmd, value>>

ContentType ==
  /\ call' = "content_type"
  /\ result' = content_type(cmd)
  /\ UNCHANGED <<cmd, value>>

Sha256Call ==
  /\ call' = "sha256"
  /\ result' = sha256(cmd)
  /\ UNCHANGED <<cmd, value>>

Next == HttpVerb \/ ContentLength \/ ContentType \/ Sha256Call

Spec == Init /\ [][Next]_vars

\* The buffers a caller converts: short ones, and the MD5 digests of bodies.
ConvertedBuffers ==
  SeqsUpTo({0, 97, 255}, MaxLen + 2) \cup {Md5(b) : b \in {<<>>, <<97>>, <<97, 255>>}}

InitContentMd5 ==
  /\ cmd = [tag |-> "HeadObject"]
  /\ value \in ConvertedBuffers
  /\ call = "new"
  /\ result = <<>>

From ==
  /\ call' = "ContentMd5::from"
  /\ result' = ContentMd5From(value)
  /\ UNCHANGED <<cmd, value>>

NextContentMd5 == From

SpecContentMd5 == InitContentMd5 /\ [][NextContentMd5]_vars

(***************************************************************************)
(* The claims.                                                             *)
(***************************************************************************)
\* The variants that send a body.
BodyBearing(c) ==
  \/ c.tag \in {"PutObject", "UploadPart", "PutObjectTagging", "CompleteMultipartUpload",
                "PutBucketLifecycle"}
  \/ c.tag = "CreateBucket" /\ location_constraint_payload(c.config) # OptNone

\* C1: for every body-bearing Command for which content_length and sha256 both
\* succeed, the digest sha256 returns is the digest of a buffer whose byte length
\* is what content_length returns.
C1_LengthOfTheHashedBuffer ==
  (call = "sha256" /\ BodyBearing(cmd) /\ result.ok /\ content_length(cmd).ok)
    => \E b \in HashInputs :
         result.val = hex_sha256(b) /\ content_length(cmd).val = Len(b)

\* C2: sha256 returns the empty-payload constant, which is the 64 hex digits of
\* the SHA-256 of zero bytes, for every variant other than PutObject,
\* PutObjectTagging, CompleteMultipartUpload and CreateBucket.
C2_EmptyPayloadShaElsewhere ==
  (call = "sha256"
     /\ cmd.tag \notin {"PutObject", "PutObjectTagging", "CompleteMultipartUpload",
                        "CreateBucket"})
    => /\ result = Ok(EMPTY_PAYLOAD_SHA)
       /\ Len(EMPTY_PAYLOAD_SHA) = 64
       /\ EMPTY_PAYLOAD_SHA = hex_sha256(<<>>)

C2_Witness ==
  /\ call = "sha256"
  /\ cmd.tag = "UploadPart"
  /\ cmd.content # <<>>
  /\ result = Ok(EMPTY_PAYLOAD_SHA)

\* The method each variant is mapped to, as the specification tabulates it.
VerbTable ==
  [t \in Variants |->
     CASE t \in {"GetObject", "GetObjectRange", "GetObjectTorrent", "GetObjectTagging",
                 "GetBucketLocation", "GetBucketLifecycle", "ListBuckets", "ListObjects",
                 "ListObjectsV2", "ListMultipartUploads", "PresignGet"} -> "GET"
       [] t \in {"PutObject", "CopyObject", "PutObjectTagging", "UploadPart", "PutBucketCors",
                 "CreateBucket", "PutBucketLifecycle", "PresignPut"} -> "PUT"
       [] t \in {"DeleteObject", "DeleteObjectTagging", "AbortMultipartUpload", "DeleteBucket",
                 "DeleteBucketLifecycle", "PresignDelete"} -> "DELETE"
       [] t \in {"InitiateMultipartUpload", "CompleteMultipartUpload"} -> "POST"
       [] t = "HeadObject" -> "HEAD"]

\* The methods http_verb returns over all Commands.
VerbsReturned == {http_verb(c) : c \in Command}

\* C3: http_verb maps every Command to the HttpMethod the table gives for its
\* variant, whatever its fields, and each of the five methods is returned for
\* some Command.
C3_HttpVerbTable ==
  /\ call = "http_verb"
       => result \in HttpMethod /\ HttpMethodFmt(result) = VerbTable[cmd.tag]
  /\ VerbsReturned = HttpMethod

C3_Witness ==
  /\ call = "http_verb"
  /\ cmd.tag = "PresignDelete"
  /\ cmd.expiry_secs = 3600
  /\ result = "Delete"

\* C4: for CreateBucket without a location-constraint payload content_length is
\* Ok(0) and sha256 is the empty-payload constant; with a payload content_length
\* is the payload's byte length, which is not 0, and sha256 is the hex SHA-256 of
\* the payload's bytes.
C4_CreateBucketPayload ==
  cmd.tag = "CreateBucket"
    => LET payload == location_constraint_payload(cmd.config)
       IN /\ call = "content_length"
               => IF payload = OptNone THEN result = Ok(0)
                  ELSE result.ok /\ result.val # 0 /\ result.val = Len(Utf8(payload[1]))
          /\ call = "sha256"
               => IF payload = OptNone THEN result = Ok(EMPTY_PAYLOAD_SHA)
                  ELSE result = Ok(HexEncode(Sha256(Utf8(payload[1]))))

C4_Witness ==
  /\ call = "sha256"
  /\ cmd.tag = "CreateBucket"
  /\ cmd.config.region = CustomRegion
  /\ result.ok
  /\ result.val # EMPTY_PAYLOAD_SHA

\* Base64 as RFC 4648 defines it: the bits of the input, most significant first,
\* padded with zero bits to a multiple of six, each six the index of a character;
\* then "=" up to a multiple of four characters.
ByteBits(b) == [i \in 1..8 |-> (b \div 2^(8 - i)) % 2]

SixBits(bits, k) ==
  LET bit(i) == IF i <= Len(bits) THEN bits[i] ELSE 0
  IN 32 * bit(6 * k - 5) + 16 * bit(6 * k - 4) + 8 * bit(6 * k - 3)
       + 4 * bit(6 * k - 2) + 2 * bit(6 * k - 1) + bit(6 * k)

RECURSIVE Rfc4648Chars(_, _, _)
Rfc4648Chars(bits, k, n) ==
  IF k > n THEN ""
  ELSE Base64Alphabet[SixBits(bits, k) + 1] \o Rfc4648Chars(bits, k + 1, n)

Rfc4648Base64(bytes) ==
  LET bits == Flatten([i \in 1..Len(bytes) |-> ByteBits(bytes[i])])
      n == (Len(bits) + 5) \div 6
      padding == <<"", "===", "==", "=">>[(n % 4) + 1]
  IN Rfc4648Chars(bits, 1, n) \o padding

\* C5, as the specification words it: converting a byte buffer into ContentMd5
\* yields Some carrying the base64 of the MD5 digest of the buffer.
C5_Base64OfMd5OfBuffer ==
  call = "ContentMd5::from" => result = ContentMd5Some(Rfc4648Base64(Md5(value)))

\* C5, as the conversion behaves: converting a byte buffer into ContentMd5 yields
\* Some carrying the padded standard base64 of the buffer's own bytes (no digest
\* is computed), so the empty buffer yields Some("").
C5_Base64OfBuffer ==
  call = "ContentMd5::from"
    => /\ result = ContentMd5Some(Rfc4648Base64(value))
       /\ value = <<>> => result = ContentMd5Some("")

\* The buffer is the MD5 digest of the empty body, and the header value is its base64.
C5_Witness ==
  /\ call = "ContentMd5::from"
  /\ Len(value) = 16
  /\ result = ContentMd5Some("1B2M2Y8AsgTpgAmY7PhCfg==")

\* C6: for PutBucketLifecycle content_length is the byte length of the
\* configuration's XML when the serializer succeeds and an error when it fails.
C6_LifecycleLengthOrError ==
  (call = "content_length" /\ cmd.tag = "PutBucketLifecycle")
    => LET xml == quick_xml_to_string(cmd.configuration)
       IN IF xml.ok THEN result = Ok(Len(Utf8(xml.val))) ELSE ~result.ok

C6_Witness ==
  /\ call = "content_length"
  /\ cmd.tag = "PutBucketLifecycle"
  /\ ~cmd.configuration.serializable
  /\ ~result.ok

\* C7: for a Command whose body is a serialized configuration that fails to
\* serialize, sha256 returns an error.
C7_Sha256ReturnsTheFailure ==
  (call = "sha256"
     /\ cmd.tag = "PutBucketLifecycle"
     /\ ~quick_xml_to_string(cmd.configuration).ok)
    => ~result.ok

\* C8: content_type returns the caller's content type for PutObject and
\* InitiateMultipartUpload, "application/xml" for CompleteMultipartUpload and
\* PutBucketLifecycle, and "text/plain" for every other variant.
C8_ContentTypeTable ==
  call = "content_type"
    => IF cmd.tag \in {"PutObject", "InitiateMultipartUpload"}
         THEN result = cmd.content_type
       ELSE IF cmd.tag \in {"CompleteMultipartUpload", "PutBucketLifecycle"}
         THEN result = "application/xml"
       ELSE result = "text/plain"

C8_Witness ==
  /\ call = "content_type"
  /\ cmd.tag = "InitiateMultipartUpload"
  /\ result = "image/png"

\* C9: content_length is Ok of the body's length for PutObject and UploadPart, Ok
\* of the tag set's byte length for PutObjectTagging, and Ok(0) for CopyObject
\* and every variant without an arm of its own.
C9_ContentLengthTable ==
  call = "content_length"
    => /\ cmd.tag \in {"PutObject", "UploadPart"} => result = Ok(Len(cmd.content))
       /\ cmd.tag = "PutObjectTagging" => result = Ok(Len(Utf8(cmd.tags)))
       /\ cmd.tag \notin {"PutObject", "UploadPart", "PutObjectTagging",
                          "CompleteMultipartUpload", "CreateBucket", "PutBucketLifecycle"}
            => result = Ok(0)

\* A tag set of one two-byte character.
C9_Witness ==
  /\ call = "content_length"
  /\ cmd.tag = "PutObjectTagging"
  /\ cmd.tags = <<233>>
  /\ result = Ok(2)

\* The fields of a Command that are its body or its content type.
SigningFields(c) ==
  CASE c.tag = "PutObject" -> <<c.content, c.content_type>>
    [] c.tag = "InitiateMultipartUpload" -> <<c.content_type>>
    [] c.tag \in {"UploadPart"} -> <<c.content>>
    [] c.tag = "PutObjectTagging" -> <<c.tags>>
    [] c.tag = "CompleteMultipartUpload" -> <<c.data>>
    [] c.tag = "CreateBucket" -> <<c.config>>
    [] c.tag \in {"PutBucketCors", "PutBucketLifecycle"} -> <<c.configuration>>
    [] OTHER -> <<>>

CommandsOf == [t \in Variants |-> {c \in Command : c.tag = t}]

Derive(f, c) ==
  CASE f = "http_verb" -> http_verb(c)
    [] f = "content_length" -> content_length(c)
    [] f = "content_type" -> content_type(c)
    [] f = "sha256" -> sha256(c)

\* C10: a Command of the same variant with the same body and content-type fields
\* gets the same http_verb, content_length, content_type and sha256, whatever
\* its other fields are.
C10_StructuralFieldsIgnored ==
  call # "new"
    => \A d \in CommandsOf[cmd.tag] :
         SigningFields(d) = SigningFields(cmd) => Derive(call, d) = result

C10_Witness ==
  /\ call = "sha256"
  /\ cmd.tag = "PutObject"
  /\ cmd.content # <<>>
  /\ cmd.multipart # OptNone
  /\ \E d \in CommandsOf["PutObject"] :
       /\ SigningFields(d) = SigningFields(cmd)
       /\ d.multipart = OptNone
       /\ d.content_md5 # cmd.content_md5
       /\ sha256(d) = result

====
